---- MODULE Spec2Model ----
(***************************************************************************)
(* Model of elsim's Dalvik differ (src/elsim/dalvik.py) and of the         *)
(* similarity module (src/elsim/similarity/__init__.py).                   *)
(*                                                                         *)
(* Python objects are modelled by value:                                   *)
(*  - an instruction object is the record [m, b, k, id]: method side m     *)
(*    (1 or 2), block b, position k (0-based), and id, the text            *)
(*    clean_name_instruction(i) + static_operand_instruction(i);           *)
(*  - a basic block is [m, name, start, end, ins, childs]; a block's name  *)
(*    is unique inside its method (every dictionary of Method.diff is      *)
(*    keyed inside one method only), and is modelled by the block's index; *)
(*  - a dictionary is a function whose DOMAIN is its key set; where the    *)
(*    code depends on insertion order the dictionary is a sequence of      *)
(*    <<key, value>> pairs;                                                *)
(*  - an attribute that the code adds to an object with setattr or with an *)
(*    assignment is a partial function from objects to attribute values.   *)
(***************************************************************************)
EXTENDS Integers, Sequences, FiniteSets, TLC

VARIABLES
    pc,         \* position of the modelled call: "start", "done" or "raised"
    err,        \* the exception a raised call ended with ("" when none)
    sort_h,     \* Method.sort_h of m1: <<>> or one candidate
    m1, m2,     \* the basic blocks of the two methods (self.bb, sort_h[0][0].bb)
    simf,       \* the similarity callback func_sim_bb in use
    dbb, nbb,   \* Method.dbb, Method.nbb
    bbs,        \* Method.bbs
    pairs,      \* the <<b1, b2, score>> behind each direct_diff_bb.append
    calls,      \* the pairs func_diff_ins was invoked on, in order
    diff_tag,   \* attribute diff_tag of instruction objects
    ins_childs, \* attribute childs of instruction objects
    bb_tag,     \* attribute bb_tag of original basic-block objects
    dbk,        \* the DiffBasicBlock returned by filter_diff_bb
    lcs,        \* a call of getDiff: [X, Y, C, i, j, a, r], a and r as it left them
    fskip,      \* the FilterSkip object: [size, regexp]
    elems,      \* the elements handed to the matching engine's filter step
    filt,       \* what the filter step left: [ran, skipped, kept, size, regexp]
    file,       \* the signature file on disk: [kind, data]
    D, H, N,    \* DBFormat.D, DBFormat.H, DBFormat.N
    nops,       \* number of DBFormat calls made so far
    ops,        \* the DBFormat calls made so far, in order, with their arguments
    sims,       \* the Similarity objects constructed so far: [ctype, level] each
    ls_ctype,   \* the compressor type libsimilarity was last set to
    buf, rep,   \* the buffer handed to the Distance Oracle is buf, rep times over
    res         \* what the last call on a Similarity object returned

vars == <<pc, err, sort_h, m1, m2, simf, dbb, nbb, bbs, pairs, calls, diff_tag,
          ins_childs, bb_tag, dbk, lcs, fskip, elems, filt, file, D, H, N, nops, ops,
          sims, ls_ctype, buf, rep, res>>

methVars == <<sort_h, m1, m2, simf, dbb, nbb, bbs, pairs, calls, diff_tag,
              ins_childs, bb_tag, dbk, lcs>>

skipVars == <<fskip, elems, filt>>

dbVars == <<file, D, H, N, nops, ops>>

simVars == <<sims, ls_ctype, buf, rep, res>>

\* ------------------------------------------------------------------ bounds
MaxLen == 3      \* longest instruction sequence of a block in the LCS runs
MaxBlocks == 2   \* most basic blocks of a method
MaxSize == 2     \* largest minimal size given to FilterSkip.set_size
MaxElemLen == 2  \* largest get_length() of an element of the filter step
MaxBuf == 4      \* longest buffer the entropy is taken of, before repeating it
MaxRep == 2      \* most times the whole buffer is repeated
MaxSims == 2     \* most Similarity objects constructed in one run
MaxOps == 4      \* most calls made on the signature store in one run

\* ----------------------------------------------------------------- helpers
Max(a, b) == IF a >= b THEN a ELSE b

Range(s) == {s[k] : k \in DOMAIN s}

\* dict[k] = v on a dictionary kept as a function
Put(f, k, v) == [x \in (DOMAIN f) \cup {k} |-> IF x = k THEN v ELSE f[x]]

\* del dict[k]
Del(f, k) == [x \in (DOMAIN f) \ {k} |-> f[x]]

EmptyDict == [x \in {} |-> 0]

\* the element of a one-element set: {e(x) : x \in {v}} names the value v
\* as x in e, computed once
Only(S) == CHOOSE x \in S : TRUE

\* Sequences over S of length 0..n
SeqsUpTo(S, n) == UNION {[1..k -> S] : k \in 0..n}

\* Python's stable sorted(l, key=...) on a list given as <<key, item>> pairs:
\* each element goes after the last element whose key is not greater.
RECURSIVE SortedPairs(_)
SortedPairs(l) ==
    IF l = <<>> THEN <<>>
    ELSE LET init == SortedPairs(SubSeq(l, 1, Len(l) - 1))
             x == l[Len(l)]
             keep == {k \in 1..Len(init) : init[k][1] <= x[1]}
             p == IF keep = {} THEN 0 ELSE CHOOSE k \in keep : \A o \in keep : o <= k
         IN SubSeq(init, 1, p) \o <<x>> \o SubSeq(init, p + 1, Len(init))

\* sorted(l, key=lambda x: x[pos - 1]) for a list of tuples
SortedByItem(l, pos) ==
    LET s == SortedPairs([k \in 1..Len(l) |-> <<l[k][pos], l[k]>>])
    IN [k \in 1..Len(s) |-> s[k][2]]

\* ------------------------------------------------------- extraction layer
\* i.get_length() of an instruction, its size in bytes: every instruction
\* of the model is 2 bytes long.
get_length(i) == 2

Instr(m, b, k, id) == [m |-> m, b |-> b, k |-> k, id |-> id]

\* a child entry (c[0], c[1], c[2]) of a block: c[0], c[1] are copied
\* untouched by the code, c[2] is the successor object.
Child(kind, m, b) == [kind |-> kind, m |-> m, b |-> b]

\* block b of method m, holding the instruction texts body, starting at start
Block(m, b, start, body, succ) ==
    [m |-> m, name |-> b, start |-> start,
     end |-> start + Len(body) * get_length(body),
     ins |-> [k \in 1..Len(body) |-> Instr(m, b, k - 1, body[k])],
     childs |-> [k \in 1..Len(succ) |-> Child("bb", m, succ[k])]]

\* ---------------------------------------------------------------- FilterSkip
\* The regular expressions the model runs with, each with the class names
\* re.match finds it at the start of. "" stands for None and for the empty
\* pattern, which "self.regexp and ..." both take for false.
ClassNames == {"La/A;", "Lb/B;"}

Regexps == {"", "La/", "L"}

re_match(regexp, cls) ==
    CASE regexp = "La/" -> cls = "La/A;"
      [] regexp = "L" -> TRUE
      [] OTHER -> FALSE

\* FilterSkip(size=1, regexp=None)
FilterSkip == [size |-> 1, regexp |-> ""]

\* FilterSkip.skip(m) on the filter f; m = [len, cls] gives m.get_length()
\* and m.m.get_class_name()
skip_regexp_first(f, m) ==
    IF f.regexp # "" THEN re_match(f.regexp, m.cls)
    ELSE m.len < f.size

skip(f, m) ==
    IF m.len < f.size THEN TRUE
    ELSE IF f.regexp # "" /\ re_match(f.regexp, m.cls) THEN TRUE
    ELSE FALSE

\* ------------------------------------------------------------------ DBFormat
\* The corpus D is a dictionary of dictionaries: D[name] has the key "NAME"
\* (a regular expression) and one key per sub-signature sname; D[name][sname]
\* has the key "SIZE" and one key per sclass; D[name][sname][sclass] maps
\* elements to sizes and is kept as the list of its <<key, size>> items in
\* insertion order. An element key is <<"int", e>> for the int e and
\* <<"str", e>> for the string str(e), which is what JSON turns an int key
\* into. The model calls add_element with sname # "NAME" and sclass # "SIZE".
Keys(items) == {items[k][1] : k \in DOMAIN items}

\* dict[key] = v on an item list: a key already there keeps its place
SetItem(items, key, v) ==
    IF key \in Keys(items)
    THEN [k \in DOMAIN items |-> IF items[k][1] = key THEN <<key, v>> ELSE items[k]]
    ELSE Append(items, <<key, v>>)

RECURSIVE DictOf(_)
DictOf(items) ==
    IF items = <<>> THEN <<>>
    ELSE SetItem(DictOf(SubSeq(items, 1, Len(items) - 1)),
                 items[Len(items)][1], items[Len(items)][2])

\* json.dump on a dictionary of elements: an int key is written as a string,
\* so the text can spell one key twice
DumpItems(items) ==
    [k \in DOMAIN items |-> <<<<"str", items[k][1][2]>>, items[k][2]>>]

\* json.dump(D): the text written, as the corpus it spells
json_dump_rawkeys(d) ==
    [i \in DOMAIN d |->
        [j \in DOMAIN d[i] |->
            IF j = "NAME" THEN d[i][j]
            ELSE [k \in DOMAIN d[i][j] |->
                    IF k = "SIZE" THEN d[i][j][k] ELSE d[i][j][k]]]]

json_dump(d) ==
    [i \in DOMAIN d |->
        [j \in DOMAIN d[i] |->
            IF j = "NAME" THEN d[i][j]
            ELSE [k \in DOMAIN d[i][j] |->
                    IF k = "SIZE" THEN d[i][j][k] ELSE DumpItems(d[i][j][k])]]]

\* json.load of such a text: of a key spelled twice the last value stays
json_load(text) ==
    [i \in DOMAIN text |->
        [j \in DOMAIN text[i] |->
            IF j = "NAME" THEN text[i][j]
            ELSE [k \in DOMAIN text[i][j] |->
                    IF k = "SIZE" THEN text[i][j][k] ELSE DictOf(text[i][j][k])]]]

\* the loops of DBFormat.__init__ that fill H and N from D
BuildH(d) ==
    [i \in DOMAIN d |->
        [j \in (DOMAIN d[i]) \ {"NAME"} |->
            [k \in (DOMAIN d[i][j]) \ {"SIZE"} |->
                {key[2] : key \in Keys(d[i][j][k])}]]]

BuildN(d) ==
    [i \in {x \in DOMAIN d : "NAME" \in DOMAIN d[x]} |-> d[i]["NAME"]]

\* DBFormat.add_name(name, value): D after the call
add_name(d, name, value) ==
    LET d1 == IF name \notin DOMAIN d THEN Put(d, name, EmptyDict) ELSE d
    IN Put(d1, name, Put(d1[name], "NAME", value))

\* DBFormat.add_element(name, sname, sclass, size, elem): D after the call
add_element_nocheck(d, name, sname, sclass, size, elem) ==
    LET fresh == ("SIZE" :> 0) @@ (sclass :> <<>>)
        d1 == IF name \notin DOMAIN d
              THEN Put(d, name, (sname :> fresh))
              ELSE IF sname \notin DOMAIN d[name]
              THEN Put(d, name, Put(d[name], sname, fresh))
              ELSE IF sclass \notin DOMAIN d[name][sname]
              THEN Put(d, name, Put(d[name], sname,
                                    Put(d[name][sname], sclass, <<>>)))
              ELSE d
        e == d1[name][sname]
        e1 == Put(e, "SIZE", e["SIZE"] + size)
        e2 == Put(e1, sclass, SetItem(e1[sclass], elem, size))
    IN Put(d1, name, Put(d1[name], sname, e2))

add_element(d, name, sname, sclass, size, elem) ==
    IF /\ name \in DOMAIN d
       /\ sname \in DOMAIN d[name]
       /\ sclass \in DOMAIN d[name][sname]
    THEN IF elem \notin Keys(d[name][sname][sclass])
         THEN LET e == d[name][sname]
                  e1 == Put(e, sclass, SetItem(e[sclass], elem, size))
                  e2 == Put(e1, "SIZE", e1["SIZE"] + size)
              IN Put(d, name, Put(d[name], sname, e2))
         ELSE d
    ELSE LET fresh == ("SIZE" :> 0) @@ (sclass :> <<>>)
             d1 == IF name \notin DOMAIN d
                   THEN Put(d, name, (sname :> fresh))
                   ELSE IF sname \notin DOMAIN d[name]
                   THEN Put(d, name, Put(d[name], sname, fresh))
                   ELSE Put(d, name, Put(d[name], sname,
                                         Put(d[name][sname], sclass, <<>>)))
             e == d1[name][sname]
             e1 == Put(e, "SIZE", e["SIZE"] + size)
             e2 == Put(e1, sclass, SetItem(e1[sclass], elem, size))
         IN Put(d1, name, Put(d1[name], sname, e2))

\* --------------------------------------------------------- Distance Oracle
\* buf * r
RECURSIVE Repeat(_, _)
Repeat(b, r) == IF r = 0 THEN <<>> ELSE b \o Repeat(b, r - 1)

RECURSIVE GCD(_, _)
GCD(a, b) == IF b = 0 THEN a ELSE GCD(b, a % b)

\* the set S of byte values as the list of its members, lowest first
RECURSIVE Ascending(_)
Ascending(S) ==
    IF S = {} THEN <<>>
    ELSE LET lo == CHOOSE x \in S : \A y \in S : x <= y
         IN <<lo>> \o Ascending(S \ {lo})

\* the byte histogram: how often the byte b is in the buffer
Count(b, byte) == Cardinality({k \in DOMAIN b : b[k] = byte})

\* the quotient c / n, as the fraction in lowest terms
Frac(c, n) == <<c \div GCD(c, n), n \div GCD(c, n)>>

\* entropy(buf), the classical Shannon entropy over the byte histogram: the
\* sum over the bytes i = 0..255 that occur of -p_i * log2(p_i), where p_i
\* is count_i / size. The value is given by the p_i it is the sum over, in
\* byte order; the empty buffer has none and its entropy is 0.0.
entropy_sizeplus1(b) ==
    LET present == Ascending({b[k] : k \in DOMAIN b})
    IN [k \in 1..Len(present) |-> Frac(Count(b, present[k]), Len(b) + 1)]

entropy(b) ==
    LET present == Ascending({b[k] : k \in DOMAIN b})
    IN [k \in 1..Len(present) |-> Frac(Count(b, present[k]), Len(b))]

\* ------------------------------------------------------ Instruction Differ
\* LCS(X, Y): the (m+1) x (n+1) table, C[i][j] written C[i, j]
LCS_left(X, Y) ==
    LET C[i \in 0..Len(X), j \in 0..Len(Y)] ==
            IF i = 0 \/ j = 0 THEN 0
            ELSE IF X[i] = Y[j] THEN C[i - 1, j - 1] + 1
            ELSE C[i, j - 1]
    IN C

LCS(X, Y) ==
    LET C[i \in 0..Len(X), j \in 0..Len(Y)] ==
            IF i = 0 \/ j = 0 THEN 0
            ELSE IF X[i] = Y[j] THEN C[i - 1, j - 1] + 1
            ELSE Max(C[i, j - 1], C[i - 1, j])
    IN C

\* getDiff(C, X, Y, i, j, a, r): the lists a and r after the call, both
\* empty before it. Entries are (index, token), the index 0-based.
RECURSIVE getDiff_norecord(_, _, _, _, _)
getDiff_norecord(C, X, Y, i, j) ==
    IF i > 0 /\ j > 0 /\ X[i] = Y[j] THEN getDiff_norecord(C, X, Y, i - 1, j - 1)
    ELSE IF j > 0 /\ (i = 0 \/ C[i, j - 1] >= C[i - 1, j])
    THEN LET d == getDiff_norecord(C, X, Y, i, j - 1)
         IN [a |-> Append(d.a, <<j - 1, Y[j]>>), r |-> d.r]
    ELSE IF i > 0 /\ (j = 0 \/ C[i, j - 1] < C[i - 1, j])
    THEN getDiff_norecord(C, X, Y, i - 1, j)
    ELSE [a |-> <<>>, r |-> <<>>]

RECURSIVE getDiff_tie_removes(_, _, _, _, _)
getDiff_tie_removes(C, X, Y, i, j) ==
    IF i > 0 /\ j > 0 /\ X[i] = Y[j] THEN getDiff_tie_removes(C, X, Y, i - 1, j - 1)
    ELSE IF i > 0 /\ (j = 0 \/ C[i, j - 1] <= C[i - 1, j])
    THEN LET d == getDiff_tie_removes(C, X, Y, i - 1, j)
         IN [a |-> d.a, r |-> Append(d.r, <<i - 1, X[i]>>)]
    ELSE IF j > 0 /\ (i = 0 \/ C[i, j - 1] > C[i - 1, j])
    THEN LET d == getDiff_tie_removes(C, X, Y, i, j - 1)
         IN [a |-> Append(d.a, <<j - 1, Y[j]>>), r |-> d.r]
    ELSE [a |-> <<>>, r |-> <<>>]

RECURSIVE getDiff(_, _, _, _, _)
getDiff(C, X, Y, i, j) ==
    IF i > 0 /\ j > 0 /\ X[i] = Y[j] THEN getDiff(C, X, Y, i - 1, j - 1)
    ELSE IF j > 0 /\ (i = 0 \/ C[i, j - 1] >= C[i - 1, j])
    THEN LET d == getDiff(C, X, Y, i, j - 1)
         IN [a |-> Append(d.a, <<j - 1, Y[j]>>), r |-> d.r]
    ELSE IF i > 0 /\ (j = 0 \/ C[i, j - 1] < C[i - 1, j])
    THEN LET d == getDiff(C, X, Y, i - 1, j)
         IN [a |-> d.a, r |-> Append(d.r, <<i - 1, X[i]>>)]
    ELSE [a |-> <<>>, r |-> <<>>]

\* toString(bb, hS, rS): the token string S (a token is the number
\* hS[ident], which chr() turns into one character), the offsets map_x
\* (a sequence, map_x[nb] written map_x[nb + 1]) and the dictionary hS after
\* the call. rS is only written, never read.
RECURSIVE toString(_, _)
toString(ins, hS) ==
    IF ins = <<>> THEN [S |-> <<>>, map_x |-> <<>>, hS |-> hS, idx |-> 0]
    ELSE LET p == toString(SubSeq(ins, 1, Len(ins) - 1), hS)
             i == ins[Len(ins)]
             h == IF i.id \in DOMAIN p.hS THEN p.hS
                  ELSE Put(p.hS, i.id, Cardinality(DOMAIN p.hS))
         IN [S |-> Append(p.S, h[i.id]),
             map_x |-> Append(p.map_x, p.idx),
             hS |-> h,
             idx |-> p.idx + get_length(i)]

\* filter_diff_bb(x, y): the DiffBasicBlock built from the blocks x and y.
\* An entry of added / deleted is <<index, byte offset, instruction>>.
filter_diff_bb_swapped(x, y) ==
    LET tx == toString(x.ins, EmptyDict)
        ty == toString(y.ins, tx.hS)
        X == tx.S
        Y == ty.S
        C == LCS(X, Y)
        d == getDiff(C, X, Y, Len(X), Len(Y))
        final_add == [k \in 1..Len(d.a) |->
                        <<d.a[k][1], ty.map_x[d.a[k][1] + 1], y.ins[d.a[k][1] + 1]>>]
        final_rm == [k \in 1..Len(d.r) |->
                        <<d.r[k][1], tx.map_x[d.r[k][1] + 1], x.ins[d.r[k][1] + 1]>>]
    IN [basic_block_x |-> y, basic_block_y |-> x,
        added |-> SortedByItem(final_rm, 2),
        deleted |-> SortedByItem(final_add, 2)]

filter_diff_bb(x, y) ==
    LET tx == toString(x.ins, EmptyDict)
        ty == toString(y.ins, tx.hS)
        X == tx.S
        Y == ty.S
        C == LCS(X, Y)
        d == getDiff(C, X, Y, Len(X), Len(Y))
        final_add == [k \in 1..Len(d.a) |->
                        <<d.a[k][1], ty.map_x[d.a[k][1] + 1], y.ins[d.a[k][1] + 1]>>]
        final_rm == [k \in 1..Len(d.r) |->
                        <<d.r[k][1], tx.map_x[d.r[k][1] + 1], x.ins[d.r[k][1] + 1]>>]
    IN [basic_block_x |-> y, basic_block_y |-> x,
        added |-> SortedByItem(final_add, 2),
        deleted |-> SortedByItem(final_rm, 2)]

\* ----------------------------------------------------- Method/Block Differ
DIFF_INS_TAG == ("ORIG" :> 0) @@ ("ADD" :> 1) @@ ("REMOVE" :> 2)

DIFF_BB_TAG == ("ORIG" :> 0) @@ ("DIFF" :> 1) @@ ("NEW" :> 2)

\* the instruction texts of a block, in order
Idents(blk) == [k \in 1..Len(blk.ins) |-> blk.ins[k].id]

\* CheckSumBB.get_hash(): mmh3.hash128 of the concatenated instruction texts,
\* taken as collision free, so the hash is the text sequence itself.
get_hash(blk) == Idents(blk)

\* bb_sha256[h] of a method: its blocks with hash h, in block order
bb_sha256(m, h) == SelectSeq(m, LAMBDA blk : get_hash(blk) = h)

\* The similarity callbacks func_sim_bb(b1, b2, sim) the model runs with.
\* Scores are ranks: 0 stands for 0.0.
\*   "edit": the number of instructions not in a longest common subsequence
\*   "zero": 0.0 for every pair
\*   "one" : the same positive score for every pair
\*   "far" : twice the length of the longest common subsequence
SimFuncs == {"edit", "zero", "one", "far"}

func_sim_bb(f, b1, b2) ==
    LET X == Idents(b1)
        Y == Idents(b2)
        l == LCS(X, Y)[Len(X), Len(Y)]
    IN CASE f = "edit" -> Len(X) + Len(Y) - 2 * l
         [] f = "zero" -> 0
         [] f = "one" -> 1
         [] OTHER -> 2 * l

\* One turn of DiffBB.diff_ins's loops at position nb: the added entry at nb,
\* then the removed entry at nb, then (first loop only, when nothing was
\* removed there) the original instruction i. st = [ins, tag, off_add, off_rm].
DiffInsAt_remove_first(st, nb, first, i) ==
    LET ok == nb \in DOMAIN st.off_rm
        s1 == IF ok
              THEN [st EXCEPT !.ins = Append(@, st.off_rm[nb][3]),
                              !.tag = Put(@, st.off_rm[nb][3], DIFF_INS_TAG["REMOVE"]),
                              !.off_rm = Del(@, nb)]
              ELSE st
        s2 == IF nb \in DOMAIN s1.off_add
              THEN [s1 EXCEPT !.ins = Append(@, s1.off_add[nb][3]),
                              !.tag = Put(@, s1.off_add[nb][3], DIFF_INS_TAG["ADD"]),
                              !.off_add = Del(@, nb)]
              ELSE s1
    IN IF first /\ ~ok
       THEN [s2 EXCEPT !.ins = Append(@, i), !.tag = Put(@, i, DIFF_INS_TAG["ORIG"])]
       ELSE s2

DiffInsAt(st, nb, first, i) ==
    LET s1 == IF nb \in DOMAIN st.off_add
              THEN [st EXCEPT !.ins = Append(@, st.off_add[nb][3]),
                              !.tag = Put(@, st.off_add[nb][3], DIFF_INS_TAG["ADD"]),
                              !.off_add = Del(@, nb)]
              ELSE st
        ok == nb \in DOMAIN s1.off_rm
        s2 == IF ok
              THEN [s1 EXCEPT !.ins = Append(@, s1.off_rm[nb][3]),
                              !.tag = Put(@, s1.off_rm[nb][3], DIFF_INS_TAG["REMOVE"]),
                              !.off_rm = Del(@, nb)]
              ELSE s1
    IN IF first /\ ~ok
       THEN [s2 EXCEPT !.ins = Append(@, i), !.tag = Put(@, i, DIFF_INS_TAG["ORIG"])]
       ELSE s2

RECURSIVE DiffInsFirst(_, _, _)
DiffInsFirst(st, ins, nb) ==
    IF nb >= Len(ins) THEN st
    ELSE Only({DiffInsFirst(s, ins, nb + 1) :
                 s \in {DiffInsAt(st, nb, TRUE, ins[nb + 1])}})

RECURSIVE DiffInsRest(_, _, _)
DiffInsRest(st, nb, nbmax) ==
    IF nb > nbmax THEN st
    ELSE Only({DiffInsRest(s, nb + 1, nbmax) :
                 s \in {DiffInsAt(st, nb, FALSE, <<>>)}})

MaxOf(S) == CHOOSE x \in S : \A y \in S : y <= x

\* DiffBB.diff_ins(di) on a DiffBB over bb1: the list self.ins and the
\* diff_tag attributes after the call, tag being the attributes before it.
diff_ins(bb1, di, tag) ==
    LET off_add == [n \in {di.add_ins[k][1] : k \in DOMAIN di.add_ins} |->
                      LET last == MaxOf({k \in DOMAIN di.add_ins : di.add_ins[k][1] = n})
                      IN di.add_ins[last]]
        off_rm == [n \in {di.remove_ins[k][1] : k \in DOMAIN di.remove_ins} |->
                      LET last == MaxOf({k \in DOMAIN di.remove_ins : di.remove_ins[k][1] = n})
                      IN di.remove_ins[last]]
        nb == Len(bb1.ins)
    IN Only({LET n1 == IF DOMAIN s1.off_add # {} THEN MaxOf(DOMAIN s1.off_add) ELSE nb
                 nbmax == IF DOMAIN s1.off_rm # {}
                          THEN Max(n1, MaxOf(DOMAIN s1.off_rm)) ELSE n1
             IN DiffInsRest(s1, nb, nbmax) :
             s1 \in {DiffInsFirst(s0, bb1.ins, 0) :
                     s0 \in {[ins |-> <<>>, tag |-> tag,
                              off_add |-> off_add, off_rm |-> off_rm]}}})

\* DiffINS(add_ins, remove_ins)
DiffINS(add_ins, remove_ins) == [add_ins |-> add_ins, remove_ins |-> remove_ins]

\* The callback func_diff_ins(dbb, sim): it aligns the two blocks of the
\* wrapper with filter_diff_bb and hands the lists to DiffBB.diff_ins.
func_diff_ins(bb1, bb2) ==
    LET d == filter_diff_bb(bb1, bb2)
    IN DiffINS(d.added, d.deleted)

\* The successor list both set_childs build from the childs of a block of m2:
\* a successor whose name is a key of abb is replaced by abb's value.
Rewire(childs, abb) ==
    [k \in 1..Len(childs) |->
        IF childs[k].b \in DOMAIN abb THEN abb[childs[k].b] ELSE childs[k]]

\* DiffBB.set_childs(abb): the childs attributes of instruction objects
\* after the call (self.childs is bb1.childs, see DiffBB below).
DiffBB_set_childs_lastins(w, abb, ic) ==
    IF w.ins # <<>>
    THEN Put(ic, w.ins[Len(w.ins)], Rewire(w.bb2.childs, abb))
    ELSE ic

DiffBB_set_childs(w, abb, ic) ==
    IF \E k \in DOMAIN w.ins : w.ins[k] = w.bb2.ins[Len(w.bb2.ins)]
    THEN Put(ic, w.bb2.ins[Len(w.bb2.ins)], Rewire(w.bb2.childs, abb))
    ELSE ic

\* NewBB.set_childs(abb): self.childs after the call
NewBB_set_childs(bb, abb) == Rewire(bb.childs, abb)

\* obj.attr = v on an object kept as a record
SetAttr(obj, attr, v) == Put(obj, attr, v)

\* DiffBB(bb1, bb2, info) as constructed: di is None, ins is empty
DiffBB(bb1, bb2, info) ==
    [bb1 |-> bb1, bb2 |-> bb2, info |-> info,
     start |-> bb1.start, end |-> bb1.end, name |-> bb1.name,
     di |-> <<>>, ins |-> <<>>]

\* NewBB(bb) as constructed
NewBB(bb) ==
    [bb |-> bb, start |-> bb.start, end |-> bb.end, name |-> bb.name,
     ins |-> bb.ins]

\* The body of "for b1 in bb1" in Method.diff for the block b1, with the one
\* candidate's blocks bb2: st = [diff_bb, direct_diff_bb, associated_bb,
\* raised, pairs]. pairs[k] tells which block of m1, with which score, put
\* direct_diff_bb[k] there. diff_bb maps the name of a block of m1 to <<name of the block of
\* m2, score>>; associated_bb maps names of blocks of m2 to blocks of m1.
\* sorted_bb[0] of an empty list raises IndexError.
MatchBlock_always_diff(st, b1, bb2, f) ==
    LET eq == bb_sha256(bb2, get_hash(b1))
        b_z == IF eq # <<>>
               THEN [k \in 1..Len(eq) |-> <<eq[k].name, 0>>]
               ELSE [k \in 1..Len(bb2) |-> <<bb2[k].name, func_sim_bb(f, b1, bb2[k])>>]
        sorted_bb == SortedByItem(b_z, 2)
        zero == SelectSeq(sorted_bb, LAMBDA e : e[2] = 0)
        direct == st.direct_diff_bb \o [k \in 1..Len(zero) |-> zero[k][1]]
        prs == st.pairs \o [k \in 1..Len(zero) |-> <<b1.name, zero[k][1], 0>>]
        assoc == [n \in (DOMAIN st.associated_bb) \cup {e[1] : e \in Range(sorted_bb)} |->
                    IF n \in {e[1] : e \in Range(sorted_bb)}
                    THEN Child("bb", b1.m, b1.name) ELSE st.associated_bb[n]]
    IN IF sorted_bb = <<>> THEN [st EXCEPT !.raised = TRUE]
       ELSE [diff_bb |-> Put(st.diff_bb, b1.name, sorted_bb[1]),
             direct_diff_bb |-> Append(direct, sorted_bb[1][1]),
             associated_bb |-> assoc,
             raised |-> FALSE,
             pairs |-> Append(prs, <<b1.name, sorted_bb[1][1], sorted_bb[1][2]>>)]

MatchBlock(st, b1, bb2, f) ==
    LET eq == bb_sha256(bb2, get_hash(b1))
        b_z == IF eq # <<>>
               THEN [k \in 1..Len(eq) |-> <<eq[k].name, 0>>]
               ELSE [k \in 1..Len(bb2) |-> <<bb2[k].name, func_sim_bb(f, b1, bb2[k])>>]
        sorted_bb == SortedByItem(b_z, 2)
        zero == SelectSeq(sorted_bb, LAMBDA e : e[2] = 0)
        direct == st.direct_diff_bb \o [k \in 1..Len(zero) |-> zero[k][1]]
        prs == st.pairs \o [k \in 1..Len(zero) |-> <<b1.name, zero[k][1], 0>>]
        assoc == [n \in (DOMAIN st.associated_bb) \cup {e[1] : e \in Range(sorted_bb)} |->
                    IF n \in {e[1] : e \in Range(sorted_bb)}
                    THEN Child("bb", b1.m, b1.name) ELSE st.associated_bb[n]]
    IN IF sorted_bb = <<>> THEN [st EXCEPT !.raised = TRUE]
       ELSE IF sorted_bb[1][2] # 0
       THEN [diff_bb |-> Put(st.diff_bb, b1.name, sorted_bb[1]),
             direct_diff_bb |-> Append(direct, sorted_bb[1][1]),
             associated_bb |-> assoc,
             raised |-> FALSE,
             pairs |-> Append(prs, <<b1.name, sorted_bb[1][1], sorted_bb[1][2]>>)]
       ELSE [diff_bb |-> st.diff_bb,
             direct_diff_bb |-> direct,
             associated_bb |-> assoc,
             raised |-> FALSE,
             pairs |-> prs]

\* "for b1 in bb1": the blocks of m1 from the k-th on; an exception ends it
RECURSIVE MatchLoop(_, _, _, _, _)
MatchLoop(st, bb1, bb2, f, k) ==
    IF k > Len(bb1) \/ st.raised THEN st
    ELSE Only({MatchLoop(s, bb1, bb2, f, k + 1) :
                 s \in {MatchBlock(st, bb1[k], bb2, f)}})

\* "for d in dbb: func_diff_ins(dbb[d], self.sim)" from the k-th key on;
\* acc = [dbb, tag, calls]
RECURSIVE DiffInsLoop(_, _, _)
DiffInsLoop(acc, keys, k) ==
    IF k > Len(keys) THEN acc
    ELSE Only({Only({Only({DiffInsLoop(nxt, keys, k + 1) :
                   nxt \in {[dbb |-> Put(acc.dbb, keys[k],
                                         [w EXCEPT !.di = di, !.ins = r.ins]),
                             tag |-> r.tag,
                             calls |-> Append(acc.calls,
                                         [bb1 |-> w.bb1.name, bb2 |-> w.bb2.name,
                                          score |-> w.info[2]])]}}) :
                   r \in {diff_ins(w.bb1, di, acc.tag)}}) :
                   w \in {acc.dbb[keys[k]]},
                   di \in {func_diff_ins(acc.dbb[keys[k]].bb1, acc.dbb[keys[k]].bb2)}})

\* "for d in dbb: dbb[d].set_childs(associated_bb)" from the k-th key on:
\* the childs attributes of instruction objects
RECURSIVE SetChildsLoop(_, _, _, _, _)
SetChildsLoop(ic, d, keys, abb, k) ==
    IF k > Len(keys) THEN ic
    ELSE Only({SetChildsLoop(c, d, keys, abb, k + 1) :
                 c \in {DiffBB_set_childs(d[keys[k]], abb, ic)}})

\* the keys of a dictionary whose keys are block names, in block order
KeysInOrder(f, m) ==
    LET names == [k \in 1..Len(m) |-> m[k].name]
    IN SelectSeq(names, LAMBDA n : n \in DOMAIN f)

\* an entry of the list l of create_bbs: the object (an original block, a
\* DiffBB or a NewBB, told apart by kind and name) with its start
Entry(kind, name, start) == [kind |-> kind, name |-> name, start |-> start]

\* Method.create_bbs(): [bbs, dbb, nbb, bb_tag] after the call; bb_tag are the
\* bb_tag attributes of the original blocks of m1, keyed by block name.
create_bbs_unsorted(bb1, d, n, keysn) ==
    LET l1 == [k \in 1..Len(bb1) |->
                 IF bb1[k].name \notin DOMAIN d
                 THEN <<bb1[k].start, Entry("bb", bb1[k].name, bb1[k].start)>>
                 ELSE <<d[bb1[k].name].start, Entry("DiffBB", bb1[k].name, d[bb1[k].name].start)>>]
        l2 == [k \in 1..Len(keysn) |->
                 <<n[keysn[k]].start, Entry("NewBB", keysn[k], n[keysn[k]].start)>>]
        l == l1 \o l2
    IN [bbs |-> [k \in 1..Len(l) |-> l[k][2]],
        dbb |-> [x \in DOMAIN d |-> SetAttr(d[x], "bb_tag", DIFF_BB_TAG["DIFF"])],
        nbb |-> [x \in DOMAIN n |-> SetAttr(n[x], "bb_tag", DIFF_BB_TAG["NEW"])],
        bb_tag |-> [x \in {bb1[k].name : k \in DOMAIN bb1} \ DOMAIN d |-> DIFF_BB_TAG["ORIG"]]]

create_bbs(bb1, d, n, keysn) ==
    LET l1 == [k \in 1..Len(bb1) |->
                 IF bb1[k].name \notin DOMAIN d
                 THEN <<bb1[k].start, Entry("bb", bb1[k].name, bb1[k].start)>>
                 ELSE <<d[bb1[k].name].start, Entry("DiffBB", bb1[k].name, d[bb1[k].name].start)>>]
        l2 == [k \in 1..Len(keysn) |->
                 <<n[keysn[k]].start, Entry("NewBB", keysn[k], n[keysn[k]].start)>>]
        l == SortedPairs(l1 \o l2)
    IN [bbs |-> [k \in 1..Len(l) |-> l[k][2]],
        dbb |-> [x \in DOMAIN d |-> SetAttr(d[x], "bb_tag", DIFF_BB_TAG["DIFF"])],
        nbb |-> [x \in DOMAIN n |-> SetAttr(n[x], "bb_tag", DIFF_BB_TAG["NEW"])],
        bb_tag |-> [x \in {bb1[k].name : k \in DOMAIN bb1} \ DOMAIN d |-> DIFF_BB_TAG["ORIG"]]]

\* Method.diff(func_sim_bb, func_diff_ins) past the sort_h == [] test, with
\* bb1 = self.bb and bb2 = the candidate's blocks: everything the call leaves
\* behind, or raised.
diff(bb1, bb2, f) ==
    Only({
      IF st.raised THEN [raised |-> TRUE]
      ELSE
        LET new_bb == {bb2[k].name : k \in {j \in DOMAIN bb2 :
                                              bb2[j].name \notin Range(st.direct_diff_bb)}}
            d0 == [x \in DOMAIN st.diff_bb |->
                      DiffBB(bb1[x], bb2[st.diff_bb[x][1]], st.diff_bb[x])]
            n0 == [x \in new_bb |-> NewBB(bb2[x])]
            abb == [x \in (DOMAIN st.associated_bb) \ new_bb |-> st.associated_bb[x]]
            keysd == KeysInOrder(d0, bb1)
            keysn == KeysInOrder(n0, bb2)
        IN Only({
             LET d1 == [x \in DOMAIN a.dbb |->
                          SetAttr(a.dbb[x], "childs", a.dbb[x].bb1.childs)]
                 n1 == [x \in DOMAIN n0 |->
                          SetAttr(n0[x], "childs", NewBB_set_childs(n0[x].bb, abb))]
             IN Only({[raised |-> FALSE, dbb |-> c.dbb, nbb |-> c.nbb, bbs |-> c.bbs,
                       bb_tag |-> c.bb_tag, diff_tag |-> a.tag, ins_childs |-> ic,
                       calls |-> a.calls, pairs |-> st.pairs, associated_bb |-> abb] :
                      ic \in {SetChildsLoop(EmptyDict, a.dbb, keysd, abb, 1)},
                      c \in {create_bbs(bb1, d1, n1, keysn)}}) :
             a \in {DiffInsLoop([dbb |-> d0, tag |-> EmptyDict, calls |-> <<>>],
                                keysd, 1)}}) :
      st \in {MatchLoop([diff_bb |-> EmptyDict, direct_diff_bb |-> <<>>,
                         associated_bb |-> EmptyDict, raised |-> FALSE,
                         pairs |-> <<>>],
                        bb1, bb2, f, 1)}})

\* ------------------------------------------------------------------ inputs
\* the instruction texts of the blocks the differ is run on
Bodies == {<<"P", "Q">>, <<"R">>, <<"P", "Q", "S">>}

\* the successor patterns of the control-flow graphs: no edge, each block
\* to the next one, each block to the next one and to the first one
Patterns == {"none", "chain", "loop"}

Succ(pat, n, b) ==
    CASE pat = "none" -> <<>>
      [] pat = "chain" -> IF b < n THEN <<b + 1>> ELSE <<>>
      [] OTHER -> IF b < n THEN <<b + 1, 1>> ELSE <<1>>

RECURSIVE StartOf(_, _)
StartOf(bodies, b) ==
    IF b = 1 THEN 0
    ELSE StartOf(bodies, b - 1) + Len(bodies[b - 1]) * get_length(bodies[b - 1])

\* the blocks of method m with the given instruction texts, laid out one
\* after the other from offset 0
MethodBlocks(m, bodies, pat) ==
    [b \in 1..Len(bodies) |->
        Block(m, b, StartOf(bodies, b), bodies[b], Succ(pat, Len(bodies), b))]

IdleSkip ==
    /\ fskip = FilterSkip /\ elems = {}
    /\ filt = [ran |-> FALSE, skipped |-> {}, kept |-> {}, size |-> 0, regexp |-> ""]

IdleDB ==
    /\ file = [kind |-> "missing", data |-> EmptyDict]
    /\ D = EmptyDict /\ H = EmptyDict /\ N = EmptyDict /\ nops = 0 /\ ops = <<>>

IdleSim ==
    /\ sims = <<>> /\ ls_ctype = "unset"
    /\ buf = <<>> /\ rep = 1 /\ res = [op |-> "none"]

Idle ==
    /\ pc = "start" /\ err = ""
    /\ dbb = EmptyDict /\ nbb = EmptyDict /\ bbs = <<>>
    /\ pairs = <<>> /\ calls = <<>>
    /\ diff_tag = EmptyDict /\ ins_childs = EmptyDict /\ bb_tag = EmptyDict
    /\ dbk = <<>> /\ lcs = <<>>

Init ==
    /\ Idle /\ IdleSkip /\ IdleDB /\ IdleSim
    /\ \E b1 \in SeqsUpTo(Bodies, MaxBlocks) : m1 = MethodBlocks(1, b1, "chain")
    /\ \/ /\ sort_h = <<>> /\ m2 = <<>> /\ simf = "edit"
       \/ /\ sort_h = <<2>>
          /\ simf \in SimFuncs
          /\ \E b2 \in SeqsUpTo(Bodies, MaxBlocks), pat \in Patterns :
                m2 = MethodBlocks(2, b2, pat)

\* Method.diff on m1
Diff ==
    /\ pc = "start"
    /\ UNCHANGED <<sort_h, m1, m2, simf, dbk, lcs, skipVars, dbVars, simVars>>
    /\ IF sort_h = <<>>
       THEN /\ dbb' = EmptyDict /\ nbb' = EmptyDict
            /\ pc' = "done"
            /\ UNCHANGED <<err, bbs, pairs, calls, diff_tag, ins_childs, bb_tag>>
       ELSE \E r \in {diff(m1, m2, simf)} :
               IF r.raised
               THEN /\ pc' = "raised" /\ err' = "IndexError"
                    /\ UNCHANGED <<dbb, nbb, bbs, pairs, calls, diff_tag, ins_childs,
                                 bb_tag>>
               ELSE /\ pc' = "done"
                    /\ dbb' = r.dbb /\ nbb' = r.nbb /\ bbs' = r.bbs
                    /\ pairs' = r.pairs /\ calls' = r.calls /\ diff_tag' = r.diff_tag
                    /\ ins_childs' = r.ins_childs /\ bb_tag' = r.bb_tag
                    /\ UNCHANGED err

Next == Diff

Spec == Init /\ [][Next]_vars

\* ------------------------------------------- the Instruction Differ alone
\* the instruction texts the two blocks of an alignment are made of
LcsTokens == {"P", "Q"}

InitLCS ==
    /\ Idle /\ IdleSkip /\ IdleDB /\ IdleSim
    /\ sort_h = <<2>> /\ simf = "edit"
    /\ \E X \in SeqsUpTo(LcsTokens, MaxLen) : m1 = <<Block(1, 1, 0, X, <<>>)>>
    /\ \E Y \in SeqsUpTo(LcsTokens, MaxLen) : m2 = <<Block(2, 1, 0, Y, <<>>)>>

\* filter_diff_bb(x, y) on the two blocks
FilterDiffBB ==
    /\ pc = "start"
    /\ dbk' = filter_diff_bb(m1[1], m2[1])
    /\ pc' = "done"
    /\ UNCHANGED <<err, sort_h, m1, m2, simf, dbb, nbb, bbs, pairs, calls,
                   diff_tag, ins_childs, bb_tag, lcs, skipVars, dbVars, simVars>>

\* DiffBB(x, y, info).diff_ins(DiffINS(added, deleted)) on the lists
\* filter_diff_bb returned for the two blocks
DiffIns ==
    /\ pc = "done"
    /\ \E w \in {DiffBB(m1[1], m2[1], <<m2[1].name, 1>>)},
          di \in {DiffINS(dbk.added, dbk.deleted)} :
          \E r \in {diff_ins(w.bb1, di, diff_tag)} :
             /\ dbb' = (w.name :> [w EXCEPT !.di = di, !.ins = r.ins])
             /\ diff_tag' = r.tag
    /\ pc' = "tagged"
    /\ UNCHANGED <<err, sort_h, m1, m2, simf, nbb, bbs, pairs, calls,
                   ins_childs, bb_tag, dbk, lcs, skipVars, dbVars, simVars>>

NextLCS == FilterDiffBB \/ DiffIns

SpecLCS == InitLCS /\ [][NextLCS]_vars

\* ------------------------------------------------- LCS and getDiff alone
\* C = LCS(X, Y); getDiff(C, X, Y, i, j, a, r) with a = r = [], X and Y the
\* token strings toString makes of the two blocks, as filter_diff_bb calls
\* them with i = len(X) and j = len(Y) and as getDiff calls itself with the
\* lower i and j
GetDiff(i, j) ==
    /\ pc = "start"
    /\ LET tx == toString(m1[1].ins, EmptyDict)
           ty == toString(m2[1].ins, tx.hS)
       IN /\ i <= Len(tx.S) /\ j <= Len(ty.S)
          /\ \E C \in {LCS(tx.S, ty.S)} :
                \E d \in {getDiff(C, tx.S, ty.S, i, j)} :
                   lcs' = [X |-> tx.S, Y |-> ty.S, C |-> C, i |-> i, j |-> j,
                           a |-> d.a, r |-> d.r]
    /\ pc' = "done"
    /\ UNCHANGED <<err, sort_h, m1, m2, simf, dbb, nbb, bbs, pairs, calls,
                   diff_tag, ins_childs, bb_tag, dbk, skipVars, dbVars, simVars>>

NextGetDiff == \E i \in 0..MaxLen, j \in 0..MaxLen : GetDiff(i, j)

SpecGetDiff == InitLCS /\ [][NextGetDiff]_vars

\* --------------------------------------------------- the skip filter alone
IdleMeth ==
    /\ sort_h = <<>> /\ m1 = <<>> /\ m2 = <<>> /\ simf = "edit"

\* the elements there are: every length with every class name
Elements == [len : 0..MaxElemLen, cls : ClassNames]

InitSkip ==
    /\ Idle /\ IdleMeth /\ IdleDB /\ IdleSim
    /\ fskip = FilterSkip
    /\ elems \in SUBSET Elements
    /\ filt = [ran |-> FALSE, skipped |-> {}, kept |-> {}, size |-> 0, regexp |-> ""]

\* FilterSkip.set_size(e)
set_size(e) ==
    /\ IF e < 0
       THEN err' = "ValueError" /\ UNCHANGED fskip
       ELSE fskip' = [fskip EXCEPT !.size = e] /\ UNCHANGED err
    /\ UNCHANGED <<pc, methVars, elems, filt, dbVars, simVars>>

\* FilterSkip.set_regexp(e)
set_regexp(e) ==
    /\ fskip' = [fskip EXCEPT !.regexp = e]
    /\ UNCHANGED <<pc, err, methVars, elems, filt, dbVars, simVars>>

\* Step 1 of the matching engine on the collection elems: the elements the
\* skip predicate holds of go to skipped, the others stay for the passes
\* that fill identical, similar, new and deleted.
FilterStep ==
    /\ pc = "start"
    /\ filt' = [ran |-> TRUE,
                skipped |-> {m \in elems : skip(fskip, m)},
                kept |-> {m \in elems : ~skip(fskip, m)},
                size |-> fskip.size, regexp |-> fskip.regexp]
    /\ pc' = "done"
    /\ UNCHANGED <<err, methVars, fskip, elems, dbVars, simVars>>

NextSkip ==
    \/ \E e \in (0 - 1)..MaxSize : set_size(e)
    \/ \E e \in Regexps : set_regexp(e)
    \/ FilterStep

SpecSkip == InitSkip /\ [][NextSkip]_vars

\* ------------------------------------------------- the signature store alone
DBNames == {"f1"}

DBSNames == {"s1"}

DBSClasses == {"c1", "c2"}

DBElems == {1, 2}

DBSizes == {1, 2}

\* a corpus file as DBFormat.save leaves it
SavedCorpus ==
    json_dump(add_element(add_name(EmptyDict, "f1", "La/"),
                          "f1", "s1", "c1", 2, <<"int", 1>>))

\* The file before the run: not there, there but not to be opened, there
\* with a text that is no JSON, or there with a corpus.
Files ==
    {[kind |-> k, data |-> EmptyDict] : k \in {"missing", "noaccess", "invalid"}}
    \cup {[kind |-> "corpus", data |-> c] : c \in {EmptyDict, SavedCorpus}}

InitDB ==
    /\ Idle /\ IdleMeth /\ IdleSkip /\ IdleSim
    /\ file \in Files
    /\ D = EmptyDict /\ H = EmptyDict /\ N = EmptyDict /\ nops = 0 /\ ops = <<>>

\* DBFormat(filename): open(filename, "r+") raises IOError, which is caught,
\* when the file is not there or may not be opened; json.load raises
\* json.JSONDecodeError, a ValueError, which nothing catches, when the text
\* is no JSON, and then H and N are never set.
Construct ==
    /\ pc \in {"start", "ready"} /\ nops < MaxOps
    /\ nops' = nops + 1
    /\ ops' = Append(ops, [op |-> "DBFormat", file |-> file.kind])
    /\ UNCHANGED <<file, methVars, skipVars, simVars>>
    /\ CASE file.kind \in {"missing", "noaccess"} ->
              /\ D' = EmptyDict /\ H' = EmptyDict /\ N' = EmptyDict
              /\ pc' = "ready" /\ err' = ""
         [] file.kind = "invalid" ->
              /\ D' = EmptyDict /\ H' = EmptyDict /\ N' = EmptyDict
              /\ pc' = "raised" /\ err' = "ValueError"
         [] OTHER ->
              /\ D' = json_load(file.data)
              /\ H' = BuildH(json_load(file.data))
              /\ N' = BuildN(json_load(file.data))
              /\ pc' = "ready" /\ err' = ""

AddName(name, value) ==
    /\ pc = "ready" /\ nops < MaxOps
    /\ nops' = nops + 1
    /\ ops' = Append(ops, [op |-> "add_name", name |-> name, value |-> value])
    /\ D' = add_name(D, name, value)
    /\ UNCHANGED <<pc, err, file, H, N, methVars, skipVars, simVars>>

AddElement(name, sname, sclass, size, elem) ==
    /\ pc = "ready" /\ nops < MaxOps
    /\ nops' = nops + 1
    /\ ops' = Append(ops, [op |-> "add_element", name |-> name, sname |-> sname,
                           sclass |-> sclass, size |-> size, elem |-> elem])
    /\ D' = add_element(D, name, sname, sclass, size, <<"int", elem>>)
    /\ UNCHANGED <<pc, err, file, H, N, methVars, skipVars, simVars>>

\* DBFormat.save(): open(filename, "w") raises when the file may not be opened
Save ==
    /\ pc = "ready" /\ nops < MaxOps
    /\ nops' = nops + 1
    /\ ops' = Append(ops, [op |-> "save"])
    /\ IF file.kind = "noaccess"
       THEN err' = "IOError" /\ UNCHANGED file
       ELSE file' = [kind |-> "corpus", data |-> json_dump(D)] /\ err' = ""
    /\ UNCHANGED <<pc, D, H, N, methVars, skipVars, simVars>>

NextDB ==
    \/ Construct
    \/ \E name \in DBNames : AddName(name, "La/")
    \/ \E name \in DBNames, sname \in DBSNames, sclass \in DBSClasses,
          size \in DBSizes, elem \in DBElems :
            AddElement(name, sname, sclass, size, elem)
    \/ Save

SpecDB == InitDB /\ [][NextDB]_vars

\* ------------------------------------------------------ the entropy alone
\* the byte values the buffers are made of
ByteValues == {0, 1, 2}

IdleEntropy == sims = <<>> /\ ls_ctype = "unset" /\ res = [op |-> "none"]

InitEntropy ==
    /\ Idle /\ IdleMeth /\ IdleSkip /\ IdleDB /\ IdleEntropy
    /\ buf \in SeqsUpTo(ByteValues, MaxBuf)
    /\ rep \in 1..MaxRep

\* Similarity.entropy(s1) with s1 = buf * rep
Entropy ==
    /\ pc = "start"
    /\ res' = [op |-> "entropy", value |-> entropy(Repeat(buf, rep))]
    /\ pc' = "done"
    /\ UNCHANGED <<err, methVars, skipVars, dbVars, sims, ls_ctype, buf, rep>>

NextEntropy == Entropy

SpecEntropy == InitEntropy /\ [][NextEntropy]_vars

\* ------------------------------------------- the Similarity objects alone
\* the members of Compress the objects are made with
CompressTypes == {"ZLIB", "BZ2", "LZMA"}

\* the methods of Similarity that compress: each hands self.level and the
\* buffers to the function of that name of libsimilarity
CompressCalls == {"compress", "ncd", "ncs", "cmid", "kolmogorov"}

\* the default level of Similarity.__init__
DefaultLevel == 9

\* libsimilarity.set_compress_type(t): a function of the module, given no
\* object, so what it sets is the module's one compressor type
ls_set_compress_type(t) == t

\* libsimilarity.compress/ncd/ncs/cmid/kolmogorov(level, ...): given the
\* level and the buffers only, they compress with the module's type
ls_call(op, level, ctype) == [op |-> op, level |-> level, codec |-> ctype]

InitSim ==
    /\ Idle /\ IdleMeth /\ IdleSkip /\ IdleDB /\ IdleSim

\* Similarity(ctype): __init__ ends with self.set_compress_type(self.ctype)
NewSimilarity(ctype) ==
    /\ Len(sims) < MaxSims
    /\ sims' = Append(sims, [ctype |-> ctype, level |-> DefaultLevel])
    /\ ls_ctype' = ls_set_compress_type(ctype)
    /\ UNCHANGED <<pc, err, methVars, skipVars, dbVars, buf, rep, res>>

\* s.set_compress_type(t) on the i-th object
set_compress_type(i, t) ==
    /\ i \in DOMAIN sims
    /\ sims' = [sims EXCEPT ![i].ctype = t]
    /\ ls_ctype' = ls_set_compress_type(t)
    /\ UNCHANGED <<pc, err, methVars, skipVars, dbVars, buf, rep, res>>

\* s.compress / s.ncd / s.ncs / s.cmid / s.kolmogorov on the i-th object:
\* res tells the object, its ctype at the call and what the library did
SimilarityCall(i, op) ==
    /\ i \in DOMAIN sims
    /\ res' = [op |-> op, inst |-> i, ctype |-> sims[i].ctype,
               made |-> ls_call(op, sims[i].level, ls_ctype)]
    /\ UNCHANGED <<pc, err, methVars, skipVars, dbVars, sims, ls_ctype, buf, rep>>

NextSim ==
    \/ \E ctype \in CompressTypes : NewSimilarity(ctype)
    \/ \E i \in 1..MaxSims, t \in CompressTypes : set_compress_type(i, t)
    \/ \E i \in 1..MaxSims, op \in CompressCalls : SimilarityCall(i, op)

SpecSim == InitSim /\ [][NextSim]_vars

\* ================================================================== claims
\* list.insert(p, x): p past the end appends
Insert(s, p, x) ==
    IF p >= Len(s) THEN Append(s, x)
    ELSE SubSeq(s, 1, p) \o <<x>> \o SubSeq(s, p + 1, Len(s))

RECURSIVE InsertAll(_, _, _)
InsertAll(s, added, k) ==
    IF k > Len(added) THEN s
    ELSE InsertAll(Insert(s, added[k][1], added[k][3].id), added, k + 1)

\* X without the positions listed in deleted, then every added instruction
\* put in at its recorded index, lowest index first
ApplyDiff(X, deleted, added) ==
    LET gone == {deleted[k][1] : k \in DOMAIN deleted}
        kept == SelectSeq([k \in 1..Len(X) |-> <<k - 1, X[k]>>],
                          LAMBDA e : e[1] \notin gone)
    IN InsertAll([k \in 1..Len(kept) |-> kept[k][2]], SortedByItem(added, 1), 1)

\* C1: deleting from the source block every position filter_diff_bb lists as
\* removed and inserting every added instruction at its recorded index gives
\* the target block's instruction sequence.
C1_RoundTrip ==
    pc = "done" =>
        ApplyDiff(Idents(m1[1]), dbk.deleted, dbk.added) = Idents(m2[1])

C1_Witness ==
    /\ pc = "done"
    /\ dbk.added # <<>> /\ dbk.deleted # <<>>
    /\ Len(dbk.added) + Len(dbk.deleted) < Len(m1[1].ins) + Len(m2[1].ins)

\* C2: the pairs of blocks Method.diff forms (identical, score 0, and
\* diff candidates, score > 0) are a partial bijection: no block of m1 and no
\* block of m2 is in two pairs.
C2_PartialBijection ==
    pc = "done" =>
        \A i, j \in DOMAIN pairs :
            i # j => pairs[i][1] # pairs[j][1] /\ pairs[i][2] # pairs[j][2]

\* the bb_tag attribute an entry of bbs carries, as a set (empty: none)
TagsOf(e) ==
    CASE e.kind = "bb" -> IF e.name \in DOMAIN bb_tag THEN {bb_tag[e.name]} ELSE {}
      [] e.kind = "DiffBB" -> IF e.name \in DOMAIN dbb THEN {dbb[e.name].bb_tag} ELSE {}
      [] OTHER -> IF e.name \in DOMAIN nbb THEN {nbb[e.name].bb_tag} ELSE {}

Occurrences(kinds, name) ==
    Cardinality({k \in DOMAIN bbs : bbs[k].kind \in kinds /\ bbs[k].name = name})

\* C3: after Method.diff on a pair, bbs is ordered by non-decreasing start,
\* every block of m1 is in it once (ORIG without a DiffBB, DIFF with one),
\* every new block of m2 is in it once as NEW, and nothing else is in it.
C3_MergedList ==
    (pc = "done" /\ sort_h # <<>>) =>
        /\ \A k \in 1..(Len(bbs) - 1) : bbs[k].start <= bbs[k + 1].start
        /\ Len(bbs) = Len(m1) + Cardinality(DOMAIN nbb)
        /\ \A b \in DOMAIN m1 :
              /\ Occurrences({"bb", "DiffBB"}, m1[b].name) = 1
              /\ \A k \in DOMAIN bbs :
                    (bbs[k].kind \in {"bb", "DiffBB"} /\ bbs[k].name = m1[b].name) =>
                        /\ bbs[k].start = m1[b].start
                        /\ (bbs[k].kind = "DiffBB") = (m1[b].name \in DOMAIN dbb)
                        /\ TagsOf(bbs[k]) =
                              IF m1[b].name \in DOMAIN dbb
                              THEN {DIFF_BB_TAG["DIFF"]} ELSE {DIFF_BB_TAG["ORIG"]}
        /\ \A n \in DOMAIN nbb :
              /\ Occurrences({"NewBB"}, n) = 1
              /\ \A k \in DOMAIN bbs :
                    (bbs[k].kind = "NewBB" /\ bbs[k].name = n) =>
                        /\ bbs[k].start = m2[n].start
                        /\ TagsOf(bbs[k]) = {DIFF_BB_TAG["NEW"]}

\* a NEW block that sorting moved in front of a block of m1, next to an ORIG
\* and a DIFF block
C3_Witness ==
    /\ pc = "done" /\ sort_h # <<>>
    /\ \E i, j, k \in DOMAIN bbs :
          /\ bbs[i].kind = "NewBB" /\ bbs[j].kind = "DiffBB" /\ bbs[k].kind = "bb"
          /\ i < j

LastOfBB2(w) == w.bb2.ins[Len(w.bb2.ins)]

DiffClassified == {dbb[x].bb2.name : x \in DOMAIN dbb}

\* what C5 asks of a rewired successor list made from the successors childs
\* of a block of m2
RewiredAsClaimed(list, childs) ==
    /\ Len(list) = Len(childs)
    /\ \A k \in DOMAIN childs :
          IF childs[k].b \in DiffClassified
          THEN /\ list[k].kind = "DiffBB"
               /\ list[k].b \in DOMAIN dbb
               /\ dbb[list[k].b].bb2.name = childs[k].b
          ELSE IF childs[k].b \in DOMAIN nbb
          THEN list[k].kind = "NewBB" /\ list[k].b = childs[k].b
          ELSE list[k] = childs[k]

\* C5: in the successor list rewired for a diff or new block, a successor
\* that is diff or new classified is the wrapper (DiffBB, NewBB) made for it,
\* and every other successor is the original one.
C5_Rewired ==
    pc = "done" =>
        /\ \A n \in DOMAIN nbb : RewiredAsClaimed(nbb[n].childs, m2[n].childs)
        /\ \A x \in DOMAIN dbb :
              LastOfBB2(dbb[x]) \in DOMAIN ins_childs =>
                  RewiredAsClaimed(ins_childs[LastOfBB2(dbb[x])], dbb[x].bb2.childs)

\* C6: a block of m1 whose best candidate has score 0 gets no DiffBB and is
\* not handed to func_diff_ins, which only sees pairs of a score above 0.
C6_NoDiffOnZero ==
    pc = "done" =>
        /\ \A k \in DOMAIN calls : calls[k].score > 0
        /\ \A i \in DOMAIN pairs :
              pairs[i][3] = 0 =>
                  /\ pairs[i][1] \notin DOMAIN dbb
                  /\ \A k \in DOMAIN calls : calls[k].bb1 # pairs[i][1]
        /\ {calls[k].bb1 : k \in DOMAIN calls} = DOMAIN dbb

\* a block scored 0 against a block with other instructions, and another
\* block handed to func_diff_ins
C6_Witness ==
    /\ pc = "done" /\ calls # <<>>
    /\ \E i \in DOMAIN pairs :
          pairs[i][3] = 0 /\ Idents(m1[pairs[i][1]]) # Idents(m2[pairs[i][2]])

\* C7: with a method without basic blocks on either side of the pair,
\* Method.diff ends without raising, dbb and nbb empty.
C7_ZeroBlocks ==
    (pc # "start" /\ sort_h # <<>> /\ (m1 = <<>> \/ m2 = <<>>)) =>
        /\ pc = "done"
        /\ dbb = EmptyDict /\ nbb = EmptyDict

\* the pair of the end-to-end example, scored as the example asks
IsExample ==
    /\ sort_h # <<>>
    /\ Len(m1) = 2 /\ Idents(m1[1]) = <<"P", "Q">> /\ Idents(m1[2]) = <<"R">>
    /\ Len(m2) = 2 /\ Idents(m2[1]) = <<"P", "Q", "S">> /\ Idents(m2[2]) = <<"R">>
    /\ m1[1].start = 0 /\ m1[2].start = 4 /\ m2[1].start = 0 /\ m2[2].start = 6
    /\ func_sim_bb(simf, m1[1], m2[1]) > 0
    /\ func_sim_bb(simf, m1[1], m2[1]) < func_sim_bb(simf, m1[1], m2[2])

\* C8: on the example B2 stays ORIG without instruction diff, there is one
\* DiffBB, B1 with B1', whose added list is S at index 2 and whose removed
\* list is empty, no block is NEW, and bbs is DIFF(B1), ORIG(B2).
C8_Example ==
    (pc = "done" /\ IsExample) =>
        /\ DOMAIN dbb = {1}
        /\ dbb[1].bb1 = m1[1] /\ dbb[1].bb2 = m2[1]
        /\ calls = <<[bb1 |-> 1, bb2 |-> 1, score |-> dbb[1].info[2]]>>
        /\ Len(dbb[1].di.add_ins) = 1
        /\ dbb[1].di.add_ins[1][1] = 2
        /\ dbb[1].di.add_ins[1][3] = m2[1].ins[3]
        /\ dbb[1].di.remove_ins = <<>>
        /\ <<2, 2, 0>> \in Range(pairs)
        /\ nbb = EmptyDict
        /\ bbs = <<Entry("DiffBB", 1, 0), Entry("bb", 2, 4)>>
        /\ TagsOf(bbs[1]) = {DIFF_BB_TAG["DIFF"]}
        /\ TagsOf(bbs[2]) = {DIFF_BB_TAG["ORIG"]}

C8_Witness == pc = "done" /\ IsExample

\* C9: an element shorter than the minimal size the filter had when the
\* filter step ran is in skipped, whatever the regular expression, and
\* nowhere else; with the default filter that is every empty element.
C9_SkipFilter ==
    filt.ran =>
        /\ \A m \in elems :
              m.len < filt.size => m \in filt.skipped /\ m \notin filt.kept
        /\ (filt.size = FilterSkip.size) =>
              \A m \in elems : m.len = 0 => m \in filt.skipped /\ m \notin filt.kept
        /\ filt.skipped \cup filt.kept = elems

\* a short element whose class name the regular expression in use does not
\* match, next to an element that was kept
C9_Witness ==
    /\ filt.ran /\ filt.regexp # ""
    /\ \E m \in elems : m.len < filt.size /\ ~re_match(filt.regexp, m.cls)
    /\ filt.kept # {}

\* C10: DBFormat on a file that is there but holds no valid JSON does not
\* raise and starts from an empty corpus, D, H and N empty.
C10_InvalidJson ==
    (file.kind = "invalid" /\ pc # "start") =>
        /\ pc = "ready"
        /\ D = EmptyDict /\ H = EmptyDict /\ N = EmptyDict

\* the corpus holding exactly what the call o of add_element added, as a
\* saved text spells it
AddedBy(o) ==
    (o.name :> (o.sname :> (("SIZE" :> o.size)
                            @@ (o.sclass :> << <<<<"str", o.elem>>, o.size>> >>))))

\* the run is DBFormat(filename) on a missing or unreadable file, then one
\* add_element, then save
AddThenSave ==
    /\ Len(ops) = 3
    /\ ops[1].file \in {"missing", "noaccess"}
    /\ ops[2].op = "add_element" /\ ops[3].op = "save"

\* C11: DBFormat on a missing or unreadable file does not raise and starts
\* from an empty corpus, D, H and N empty; add_element followed by save then
\* writes a corpus holding exactly the added data.
C11_MissingFile ==
    (ops # <<>> /\ ops[1].file \in {"missing", "noaccess"}) =>
        /\ pc = "ready"
        /\ Len(ops) = 1 => (D = EmptyDict /\ H = EmptyDict /\ N = EmptyDict)
        /\ AddThenSave => file = [kind |-> "corpus", data |-> AddedBy(ops[2])]

\* C11, as the code has it: the construction does not raise and starts from
\* an empty corpus; add_element followed by save writes exactly the added
\* data, an int element spelled as a string, when the file can be opened for
\* writing, and save raises IOError and writes nothing when it cannot.
C11_MissingFileWritable ==
    (ops # <<>> /\ ops[1].file \in {"missing", "noaccess"}) =>
        /\ pc = "ready"
        /\ Len(ops) = 1 => (D = EmptyDict /\ H = EmptyDict /\ N = EmptyDict /\ err = "")
        /\ (AddThenSave /\ ops[1].file = "missing") =>
              (file = [kind |-> "corpus", data |-> AddedBy(ops[2])] /\ err = "")
        /\ (AddThenSave /\ ops[1].file = "noaccess") =>
              (file = [kind |-> "noaccess", data |-> EmptyDict] /\ err = "IOError")

C11_Witness ==
    /\ AddThenSave /\ ops[1].file = "missing"
    /\ file.kind = "corpus" /\ file.data = AddedBy(ops[2])

\* the sum of the sizes stored in a dictionary of elements
RECURSIVE SumItems(_)
SumItems(items) ==
    IF items = <<>> THEN 0
    ELSE items[Len(items)][2] + SumItems(SubSeq(items, 1, Len(items) - 1))

\* the sum of the sizes stored in the sub-categories ks of D[name][sname]
RECURSIVE SumClasses(_, _)
SumClasses(e, ks) ==
    IF ks = {} THEN 0
    ELSE LET k == CHOOSE x \in ks : TRUE
         IN SumItems(e[k]) + SumClasses(e, ks \ {k})

\* the run started from an empty corpus and made add_name and add_element
\* calls only
OnlyAdds ==
    /\ ops # <<>>
    /\ ops[1].file \in {"missing", "noaccess"}
    /\ \A k \in 2..Len(ops) : ops[k].op \in {"add_name", "add_element"}

\* C12: from an empty corpus, after any add_name and add_element calls, the
\* "SIZE" of every (name, sname) is the sum of the sizes stored for all
\* elements of all its sub-categories; add_element for an element already
\* present changes nothing.
C12_SizeInvariant ==
    /\ [](OnlyAdds =>
            \A i \in DOMAIN D : \A j \in (DOMAIN D[i]) \ {"NAME"} :
                D[i][j]["SIZE"] = SumClasses(D[i][j], (DOMAIN D[i][j]) \ {"SIZE"}))
    /\ [][\A name \in DBNames, sname \in DBSNames, sclass \in DBSClasses,
             size \in DBSizes, elem \in DBElems :
               (/\ OnlyAdds
                /\ AddElement(name, sname, sclass, size, elem)
                /\ name \in DOMAIN D
                /\ sname \in DOMAIN D[name]
                /\ sclass \in DOMAIN D[name][sname]
                /\ <<"int", elem>> \in Keys(D[name][sname][sclass]))
               => D' = D]_vars

\* an element added twice with two sizes, in a store that has a name too
C12_Witness ==
    /\ OnlyAdds /\ Len(ops) = 4
    /\ \E h, k \in 2..4 :
          /\ h < k
          /\ ops[h].op = "add_element" /\ ops[k].op = "add_element"
          /\ ops[h].sclass = ops[k].sclass /\ ops[h].elem = ops[k].elem
          /\ ops[h].size # ops[k].size
          /\ D[ops[h].name][ops[h].sname]["SIZE"] = ops[h].size
    /\ \E k \in 2..4 : ops[k].op = "add_name"

RECURSIVE Pow(_, _)
Pow(a, n) == IF n = 0 THEN 1 ELSE a * Pow(a, n - 1)

RECURSIVE LCMDen(_)
LCMDen(e) ==
    IF e = <<>> THEN 1
    ELSE LET l == LCMDen(SubSeq(e, 1, Len(e) - 1))
             d == e[Len(e)][2]
         IN (l * d) \div GCD(l, d)

\* With d the common denominator of the p_i and p_i = a_i / d, the entropy
\* h = sum of -p_i * log2(p_i) has 2^(d * h) = d^d / product of a_i^a_i;
\* so h = log2(k) exactly when d^d = k^d * product of a_i^a_i.
RECURSIVE ProdPow(_, _)
ProdPow(e, d) ==
    IF e = <<>> THEN 1
    ELSE LET a == (e[Len(e)][1] * d) \div e[Len(e)][2]
         IN Pow(a, a) * ProdPow(SubSeq(e, 1, Len(e) - 1), d)

IsLog2(e, k) ==
    LET d == LCMDen(e)
    IN Pow(d, d) = Pow(k, d) * ProdPow(e, d)

\* C13: entropy is 0.0 for the empty buffer and for a buffer of one
\* repeated byte value, log2(k) for a buffer in which each of k byte values
\* occurs equally often, and depends neither on the order of the bytes nor
\* on how many times the whole buffer is repeated.
C13_Entropy ==
    (pc = "done" /\ res.op = "entropy") =>
        LET used == {buf[k] : k \in DOMAIN buf}
            k == Cardinality(used)
        IN /\ k <= 1 => IsLog2(res.value, 1)
           /\ (k >= 1 /\ \A x, y \in used : Count(buf, x) = Count(buf, y))
                 => IsLog2(res.value, k)
           /\ res.value = entropy(buf)
           /\ \A other \in SeqsUpTo(ByteValues, MaxBuf) :
                 (\A x \in ByteValues : Count(other, x) = Count(buf, x))
                    => res.value = entropy(other)

\* three byte values, each as often as the others and not in byte order,
\* the whole repeated
C13_Witness ==
    /\ pc = "done" /\ res.op = "entropy"
    /\ rep > 1 /\ buf = <<2, 0, 1>>
    /\ IsLog2(res.value, 3) /\ ~IsLog2(res.value, 2)

\* the items of s at the positions in P, in order
RECURSIVE Pick(_, _)
Pick(s, P) ==
    IF s = <<>> THEN <<>>
    ELSE IF Len(s) \in P
    THEN Append(Pick(SubSeq(s, 1, Len(s) - 1), P), s[Len(s)])
    ELSE Pick(SubSeq(s, 1, Len(s) - 1), P)

\* all subsequences of s
Subsequences(s) == {Pick(s, P) : P \in SUBSET (1..Len(s))}

\* the length of a longest common subsequence of s and t
LongestCommon(s, t) ==
    MaxOf({Len(u) : u \in Subsequences(s) \cap Subsequences(t)})

\* the indices of the entries of l are strictly increasing and in 0..n-1
Increasing(l, n) ==
    /\ \A k \in DOMAIN l : l[k][1] \in 0..(n - 1)
    /\ \A h, k \in DOMAIN l : h < k => l[h][1] < l[k][1]

StepIs(i2, j2, add, rm) ==
    LET d == getDiff(lcs.C, lcs.X, lcs.Y, i2, j2)
    IN lcs.a = d.a \o add /\ lcs.r = d.r \o rm

\* C15: a step (i, j) of getDiff on a match records nothing; on no match it
\* records exactly one entry: with i > 0 and j > 0 the Y-token as added if
\* C[i][j-1] >= C[i-1][j] and the X-token as removed if
\* C[i][j-1] < C[i-1][j]; with i = 0 the Y-token as added, with j = 0 the
\* X-token as removed.
C15_TieBias ==
    pc = "done" =>
        LET i == lcs.i
            j == lcs.j
            added == << <<j - 1, lcs.Y[j]>> >>
            removed == << <<i - 1, lcs.X[i]>> >>
        IN CASE i > 0 /\ j > 0 /\ lcs.X[i] = lcs.Y[j] ->
                   StepIs(i - 1, j - 1, <<>>, <<>>)
             [] i > 0 /\ j > 0 /\ lcs.X[i] # lcs.Y[j]
                      /\ lcs.C[i, j - 1] >= lcs.C[i - 1, j] ->
                   StepIs(i, j - 1, added, <<>>)
             [] i > 0 /\ j > 0 /\ lcs.X[i] # lcs.Y[j]
                      /\ lcs.C[i, j - 1] < lcs.C[i - 1, j] ->
                   StepIs(i - 1, j, <<>>, removed)
             [] i = 0 /\ j > 0 -> StepIs(i, j - 1, added, <<>>)
             [] i > 0 /\ j = 0 -> StepIs(i - 1, j, <<>>, removed)
             [] OTHER -> lcs.a = <<>> /\ lcs.r = <<>>

\* a step without a match where the two counts are equal and not zero
C15_Witness ==
    /\ pc = "done" /\ lcs.i > 0 /\ lcs.j > 0
    /\ lcs.X[lcs.i] # lcs.Y[lcs.j]
    /\ lcs.C[lcs.i, lcs.j - 1] = lcs.C[lcs.i - 1, lcs.j]
    /\ lcs.C[lcs.i, lcs.j] > 0
    /\ lcs.a # <<>> /\ lcs.a[Len(lcs.a)] = <<lcs.j - 1, lcs.Y[lcs.j]>>

\* the entries of l recorded at index p, as <<instruction, tag>>
At(l, p, tag) ==
    LET hit == SelectSeq(l, LAMBDA e : e[1] = p)
    IN [k \in 1..Len(hit) |-> <<hit[k][3], tag>>]

\* the output the claim describes for the positions p .. |X| - 1 of X
RECURSIVE Walk(_, _, _, _)
Walk(X, added, removed, p) ==
    IF p >= Len(X) THEN <<>>
    ELSE At(added, p, DIFF_INS_TAG["ADD"])
         \o << <<X[p + 1], IF At(removed, p, 0) # <<>>
                           THEN DIFF_INS_TAG["REMOVE"] ELSE DIFF_INS_TAG["ORIG"]>> >>
         \o Walk(X, added, removed, p + 1)

\* and for the added entries left when X is exhausted, lowest index first
Rest(X, added) ==
    LET late == SortedByItem(SelectSeq(added, LAMBDA e : e[1] >= Len(X)), 1)
    IN [k \in 1..Len(late) |-> <<late[k][3], DIFF_INS_TAG["ADD"]>>]

\* the reconstructed sequence of the only DiffBB, as <<instruction, tag>>
Tagged ==
    LET w == dbb[m1[1].name]
    IN [k \in 1..Len(w.ins) |->
          <<w.ins[k], IF w.ins[k] \in DOMAIN diff_tag THEN diff_tag[w.ins[k]] ELSE 0 - 1>>]

\* C16: diff_ins emits, for each position p of the source block in order,
\* the added entry recorded at p (ADD) if any, then X[p] as REMOVE if a
\* removed entry is recorded at p and as ORIG otherwise, then the added
\* entries left, in ascending index order (ADD); every added and every
\* removed entry is emitted once, every emitted instruction has one tag,
\* and the output is |X| + |added| long.
C16_Reconstruction ==
    pc = "tagged" =>
        LET X == m1[1].ins
            out == Tagged
        IN /\ out = Walk(X, dbk.added, dbk.deleted, 0) \o Rest(X, dbk.added)
           /\ \A k \in DOMAIN dbk.added :
                 Cardinality({h \in DOMAIN out :
                     out[h] = <<dbk.added[k][3], DIFF_INS_TAG["ADD"]>>}) = 1
           /\ \A k \in DOMAIN dbk.deleted :
                 Cardinality({h \in DOMAIN out :
                     out[h] = <<dbk.deleted[k][3], DIFF_INS_TAG["REMOVE"]>>}) = 1
           /\ \A h \in DOMAIN out :
                 /\ out[h][2] \in Range(DIFF_INS_TAG)
                 /\ \A k \in DOMAIN out : out[k][1] = out[h][1] => k = h
           /\ Len(out) = Len(X) + Len(dbk.added)

\* an added entry early in the source block, one after its end, and a
\* removed entry
C16_Witness ==
    /\ pc = "tagged"
    /\ \E k \in DOMAIN dbk.added : dbk.added[k][1] < Len(m1[1].ins)
    /\ \E k \in DOMAIN dbk.added : dbk.added[k][1] >= Len(m1[1].ins)
    /\ dbk.deleted # <<>>

\* the instruction texts of the entries of Tagged whose tag is in tags
TextsTagged(tags) ==
    LET sel == SelectSeq(Tagged, LAMBDA e : e[2] \in tags)
    IN [k \in 1..Len(sel) |-> sel[k][1].id]

\* C17: in the sequence diff_ins builds from filter_diff_bb's lists, the
\* instructions tagged ORIG or ADD are the target block's instruction
\* sequence in order, and those tagged ORIG or REMOVE are the source
\* block's.
C17_ConsistentMerge ==
    pc = "tagged" =>
        /\ TextsTagged({DIFF_INS_TAG["ORIG"], DIFF_INS_TAG["ADD"]}) = Idents(m2[1])
        /\ TextsTagged({DIFF_INS_TAG["ORIG"], DIFF_INS_TAG["REMOVE"]}) = Idents(m1[1])

\* C18: whatever Similarity objects were constructed and reconfigured
\* before, a call of compress, ncd, ncs, cmid or kolmogorov on an object s
\* compresses with the codec s.ctype.
C18_OwnCompressor ==
    res.op \in CompressCalls => res.made.codec = res.ctype
====
